---- MODULE Spec2Model ----
(***************************************************************************)
(* bokuao-notify: three notifier programs that scan a listing, deliver new *)
(* items to a Discord webhook and remember what they delivered.            *)
(*                                                                         *)
(*   bokuao_news.py         news driver: embed, overflow messages, images, *)
(*                          delivery with a 5-attempt retry loop           *)
(*   notify_bokuao.py       blog driver: one webhook per author, embed and *)
(*                          images, single-attempt delivery                *)
(*   notify_bokuao_news.py  first news driver: one message per item,       *)
(*                          single-attempt delivery                        *)
(*                                                                         *)
(* Six specifications share the module:                                    *)
(*   Spec       the drivers (main of each program) over several runs       *)
(*   SpecRetry  the retry loop of bokuao_news.webhook_post_json and        *)
(*              webhook_post_with_files, one POST attempt per step         *)
(*   SpecSeg    the segmenter: build_embed_and_overflow_messages as a      *)
(*              function of the body, title, category and date, and        *)
(*              split_for_embed on its own                                 *)
(*   SpecStrip  strip_leading_header_lines applied once and twice          *)
(*   SpecScan   the listing scanners and uniq_keep_order                   *)
(*   SpecImages the image tail of a post function, one fetch per step      *)
(***************************************************************************)
EXTENDS Integers, Sequences, FiniteSets, TLC

VARIABLES
    prog,       \* which program the behaviour runs
    listing,    \* the site's items, in listing order: [url, date, key]
    file,       \* the state file: recipient key -> set of notified locators
    pc,         \* position of the running main ("idle": no run in progress)
    notified,   \* main's in-memory notified sets (notified / notified_by_author)
    today,      \* target date of the run
    items,      \* todays (news) / list_detail_urls() then to_send (blog)
    to_send,    \* blog: (author_key, post) pairs collected so far
    idx,        \* index of the item the loop is at
    cur,        \* the delivery in progress inside the post function
    runs,       \* number of runs started
    lastEnd,    \* how the last run ended: "none" (running or no run yet),
                \* "normal", "listing_error" or "item_error" (a raised error)
    repeat,     \* this run follows a normal run with the same target date
    run,        \* history of the current run
    delivered,  \* history: completed delivery sequences per key and locator
    w,          \* SpecRetry: the retry loop's locals and what it has done
    seg,        \* SpecSeg: the segmenter's inputs and outputs
    hdr,        \* SpecStrip: the header stripper's inputs and outputs
    scan,       \* SpecScan: the listing scanner's anchors and output
    img         \* SpecImages: the image tail of a post function

driverVars == <<prog, listing, file, pc, notified, today, items, to_send, idx,
                cur, runs, lastEnd, repeat, run, delivered>>
vars == <<prog, listing, file, pc, notified, today, items, to_send, idx,
          cur, runs, lastEnd, repeat, run, delivered, w, seg, hdr, scan, img>>

(***************************************************************************)
(* Bounds of the model.                                                    *)
(***************************************************************************)
NumLocs == 2        \* distinct item locators on the site
NumDates == 2       \* distinct display dates
MaxRuns == 3        \* runs of main in one behaviour
MaxOverflow == 1    \* overflow messages of one item
MaxImages == 1      \* image locators of one item

(***************************************************************************)
(* Program constants.                                                      *)
(***************************************************************************)
MAX_IMAGES_PER_POST == 10
MAX_ATTEMPTS == 5           \* for attempt in range(1, 6)
BODY_LOG_LIMIT == 1200      \* (r.text or "")[:1200]

Min(a, b) == IF a <= b THEN a ELSE b
Max(a, b) == IF a >= b THEN a ELSE b

Locs == 1..NumLocs
Dates == 1..NumDates
NewsKey == "notified_news_urls"
AuthorKeys == {"a1", "a2"}          \* norm(k) for k in WEBHOOKS_BY_AUTHOR
OtherAuthor == "other"              \* an author with no webhook
Keys == {NewsKey} \cup AuthorKeys
NewsProgs == {"bokuao_news", "notify_bokuao_news"}
Progs == NewsProgs \cup {"notify_bokuao"}

EmptyState == [k \in Keys |-> {}]

(***************************************************************************)
(* Delivery client of bokuao_news.py.  A response is                       *)
(*   [exc, status, text]: exc = requests.post raised a RequestException;   *)
(*   otherwise status is r.status_code and text is len(r.text).            *)
(* The loop state is [attempt, last_status, last_body, slept, posts,       *)
(* result, err]; last_status and last_body are -1 while they are None.     *)
(***************************************************************************)
NoneVal == -1

LoopStart ==
    [attempt |-> 1, last_status |-> NoneVal, last_body |-> NoneVal,
     slept |-> <<>>, posts |-> 0, result |-> "running",
     err |-> [status |-> NoneVal, body |-> NoneVal]]

\* Response.raise_for_status(): HTTPError for 4xx and 5xx, nothing otherwise.
raise_for_status(status) == 400 <= status /\ status < 600

\* Faulty variant: every wait is 2 seconds.
backoff_fixed(st) == [st EXCEPT !.slept = Append(@, 2)]

\* time.sleep(2.0 * attempt)
backoff(st) == [st EXCEPT !.slept = Append(@, 2 * st.attempt)]

\* Faulty variant: the loop allows one attempt more.
loop_next_six(st) ==
    IF st.attempt < MAX_ATTEMPTS + 1
    THEN [st EXCEPT !.attempt = @ + 1]
    ELSE [st EXCEPT !.result = "raised",
                    !.err = [status |-> st.last_status, body |-> st.last_body]]

\* End of one iteration of "for attempt in range(1, 6)": the next attempt, or
\* the raise RuntimeError(...) that follows the loop.
loop_next(st) ==
    IF st.attempt < MAX_ATTEMPTS
    THEN [st EXCEPT !.attempt = @ + 1]
    ELSE [st EXCEPT !.result = "raised",
                    !.err = [status |-> st.last_status, body |-> st.last_body]]

\* One iteration of webhook_post_json's loop with the response r.
webhook_post_json_attempt(st, r) ==
    LET posted == [st EXCEPT !.posts = @ + 1]
    IN  IF r.exc
        THEN loop_next(backoff(posted))                 \* except RequestException
        ELSE IF 200 <= r.status /\ r.status < 300
        THEN [posted EXCEPT !.result = "returned"]
        ELSE LET seen == [posted EXCEPT !.last_status = r.status,
                                        !.last_body = Min(r.text, BODY_LOG_LIMIT)]
             IN  IF 500 <= r.status /\ r.status < 600
                 THEN loop_next(backoff(seen))          \* sleep; continue
                 ELSE IF raise_for_status(r.status)
                 THEN loop_next(backoff(seen))          \* HTTPError is caught below
                 ELSE loop_next(seen)                   \* falls out of the try

\* One iteration of webhook_post_with_files's loop with the response r.
webhook_post_with_files_attempt(st, r) ==
    LET posted == [st EXCEPT !.posts = @ + 1]
    IN  IF r.exc
        THEN loop_next(backoff(posted))
        ELSE IF 200 <= r.status /\ r.status < 300
        THEN [posted EXCEPT !.result = "returned"]
        ELSE LET seen == [posted EXCEPT !.last_status = r.status,
                                        !.last_body = Min(r.text, BODY_LOG_LIMIT)]
             IN  IF 500 <= r.status /\ r.status < 600
                 THEN loop_next(backoff(seen))
                 ELSE IF raise_for_status(r.status)
                 THEN loop_next(backoff(seen))
                 ELSE loop_next(seen)

webhook_attempt(fn, st, r) ==
    IF fn = "json" THEN webhook_post_json_attempt(st, r)
    ELSE webhook_post_with_files_attempt(st, r)

\* A whole call: the loop run against the responses resp[1], resp[2], ...
RECURSIVE webhook_call(_, _, _)
webhook_call(fn, st, resp) ==
    IF st.result # "running" THEN st
    ELSE webhook_call(fn, webhook_attempt(fn, st, resp[st.attempt]), resp)

\* webhook_post_json / webhook_post_with_files of notify_bokuao.py and
\* notify_bokuao_news.py: one POST, then r.raise_for_status().
webhook_post_once(r) ==
    [LoopStart EXCEPT !.posts = 1,
                      !.result = IF r.exc \/ raise_for_status(r.status)
                                 THEN "raised" ELSE "returned"]

(***************************************************************************)
(* What the transport answers to the drivers: the first `fails` attempts   *)
(* of a call get the failure `bad`, the later ones 200.                    *)
(***************************************************************************)
Resp(status) == [exc |-> FALSE, status |-> status, text |-> 0]
ExcResp == [exc |-> TRUE, status |-> 0, text |-> 0]
BadResps == {Resp(500), Resp(400), ExcResp}
Scripts == [fails : {0, 1, MAX_ATTEMPTS}, bad : BadResps]
ScriptResp(s) == [a \in 1..MAX_ATTEMPTS |-> IF a <= s.fails THEN s.bad ELSE Resp(200)]

\* The delivery call of the running program for one payload.
deliver(p, fn, s) ==
    IF p = "bokuao_news"
    THEN webhook_call(fn, LoopStart, ScriptResp(s))
    ELSE webhook_post_once(ScriptResp(s)[1])

(***************************************************************************)
(* The drivers.                                                            *)
(***************************************************************************)
Item(u, d, k) == [url |-> u, date |-> d, key |-> k]

\* Items a program can meet: a news item is filed under the one news key, a
\* blog post under its author's key.
ItemsOf(p) ==
    IF p \in NewsProgs
    THEN {Item(u, d, NewsKey) : u \in Locs, d \in Dates}
    ELSE {Item(u, d, k) : u \in Locs, d \in Dates, k \in AuthorKeys \cup {OtherAuthor}}

\* Output of the listing scanner: every locator at most once.  Locators are
\* opaque, so they are numbered in listing order.
Listings(p) ==
    {l \in UNION {[1..n -> ItemsOf(p)] : n \in 0..NumLocs} :
        \A i \in DOMAIN l : l[i].url = i}

NoCur == [key |-> NewsKey, url |-> 0, over |-> 0, images |-> 0, files |-> 0,
          embed |-> FALSE, sentOver |-> 0, img |-> "pending"]

\* History: no delivery call made yet in the run.
NoCall == [url |-> 0, over |-> 0, kind |-> "none", n |-> 0, ok |-> TRUE]

NewRun(st) == [posts |-> 0, writes |-> 0, entered |-> FALSE, done |-> {},
               tried |-> {}, loaded |-> st, last |-> NoCall, redo |-> {}]

\* History at the start of a run with target date d: redo holds what the run
\* before delivered completely, if that run ended by a raised error and had
\* the same target date.
StartRun(d) ==
    [NewRun(file) EXCEPT !.redo = IF lastEnd \in {"listing_error", "item_error"} /\ d = today
                                  THEN run.done ELSE {}]

\* The whole delivery sequence of c has been accepted by the transport: the
\* primary POST, every overflow POST, and the image batch when one was due.
IsComplete(c) ==
    /\ c.embed
    /\ c.sentOver = c.over
    /\ c.img \in {"none", "accepted"}

\* Faulty variant: the stored state is never read back.
load_state_missing(f) == EmptyState

\* load_state(): the file's content, {} when the file is missing.
load_state(f) == f

\* bokuao_news.main / notify_bokuao_news.main:
\*   state["notified_news_urls"] = sorted(notified); save_state(state)
save_state_news(st, n) == [st EXCEPT ![NewsKey] = n[NewsKey]]

\* notify_bokuao.main:
\*   state["notified_by_author"] = notified_by_author; save_state(state)
save_state_blog(st, n) == [k \in Keys |-> IF k \in AuthorKeys THEN n[k] ELSE st[k]]

save_state(p, st, n) ==
    IF p \in NewsProgs THEN save_state_news(st, n) ELSE save_state_blog(st, n)

\* "if it["url"] in notified" / "if url in notified_set"
already_notified(n, k, u) == u \in n[k]

\* Faulty variant: the locator replaces the recipient's set instead of joining it.
mark_notified_overwrite(n, k, u) == [n EXCEPT ![k] = {u}]

\* notified.add(it["url"]) / notified_by_author[author_key] = sorted(set + url)
mark_notified(n, k, u) == [n EXCEPT ![k] = @ \cup {u}]

\* Faulty variant: the items of the day are taken last first.
todays_of_reversed(l, d) ==
    LET t == SelectSeq(l, LAMBDA it : it.date = d)
    IN  [i \in 1..Len(t) |-> t[Len(t) + 1 - i]]

\* todays = [it for it in items if it.get("date") == today]
todays_of(l, d) == SelectSeq(l, LAMBDA it : it.date = d)

\* Faulty variant: the overflow messages are never sent.
after_text_post_skip(p, c) == "images"

\* Where the post function goes after an accepted POST of the text part.
after_text_post(p, c) ==
    IF p = "bokuao_news" /\ c.sentOver < c.over THEN "overflow" ELSE "images"

\* The loop head main returns to after an item.
loop_head(p) == IF p \in NewsProgs THEN "loop" ELSE "send"

\* Faulty variant: the loop stops after its first item.
loop_done_early(i, its) == i > 1

\* "for it in todays" / "for author_key, post in to_send" has run out.
loop_done(i, its) == i > Len(its)

\* History: one delivery call (a message handed to webhook_post_json or
\* webhook_post_with_files) for the item in progress: which message it was
\* and whether the transport accepted it.
Call(kind, n, ok) ==
    [url |-> cur.url, over |-> cur.over, kind |-> kind, n |-> n, ok |-> ok]

\* History: a delivery sequence is counted when it becomes complete; np is
\* the number of POSTs the step made and call the delivery call it made
\* (NoCall when it made none).
Observe(c, c2, np, call) ==
    LET last == IF call = NoCall THEN run.last ELSE call
    IN  IF IsComplete(c2) /\ ~IsComplete(c)
        THEN /\ delivered' = [delivered EXCEPT ![c2.key][c2.url] = @ + 1]
             /\ run' = [run EXCEPT !.posts = @ + np,
                                   !.last = last,
                                   !.done = @ \cup {<<c2.key, c2.url>>}]
        ELSE /\ delivered' = delivered
             /\ run' = [run EXCEPT !.posts = @ + np, !.last = last]

\* History: a delivery call that raised after np POSTs.
ObserveFailed(np, call) ==
    /\ delivered' = delivered
    /\ run' = [run EXCEPT !.posts = @ + np, !.last = call]

\* Faulty variant: the state is saved on the way out of a failing run.
raise_out_of_main_saving(p, f, n) == save_state(p, f, n)

\* An exception leaves main with the in-memory sets n: save_state is not
\* reached and the state file keeps its content.
raise_out_of_main(p, f, n) == f

\* The process ends: normally (return from main) or by a raised error.
EndRun(how) ==
    /\ pc' = "idle"
    /\ lastEnd' = how
    /\ notified' = EmptyState
    /\ items' = <<>>
    /\ to_send' = <<>>
    /\ idx' = 0
    /\ cur' = NoCur

InitDriver ==
    /\ prog \in Progs
    /\ listing \in Listings(prog)
    /\ file = EmptyState
    /\ pc = "idle"
    /\ notified = EmptyState
    /\ today = 1
    /\ items = <<>>
    /\ to_send = <<>>
    /\ idx = 0
    /\ cur = NoCur
    /\ runs = 0
    /\ lastEnd = "none"
    /\ repeat = FALSE
    /\ run = NewRun(EmptyState)
    /\ delivered = [k \in Keys |-> [u \in Locs |-> 0]]

IdleRetry == w = [fn |-> "json", st |-> LoopStart, seen |-> <<>>]
IdleSeg == seg = [phase |-> "off"]
IdleStrip == hdr = [phase |-> "off"]
IdleScan == scan = [phase |-> "off"]
IdleImages == img = [phase |-> "off"]

\* main of the two news programs up to the loop: load_state, the listing
\* fetch, the date filter and the early return.
news_main_start ==
    /\ prog \in NewsProgs
    /\ pc = "idle"
    /\ runs < MaxRuns
    /\ runs' = runs + 1
    /\ \E d \in Dates :
        /\ today' = d
        /\ repeat' = (lastEnd = "normal" /\ d = today)
        /\ \/ \* fetch(NEWS_LIST_URL) raises
              /\ run' = StartRun(d)
              /\ file' = raise_out_of_main(prog, file, load_state(file))
              /\ EndRun("listing_error")
           \/ IF todays_of(listing, d) = <<>>
              THEN /\ run' = StartRun(d)
                   /\ file' = file
                   /\ EndRun("normal")
              ELSE /\ run' = [StartRun(d) EXCEPT !.entered = TRUE]
                   /\ file' = file
                   /\ pc' = "loop"
                   /\ notified' = load_state(file)
                   /\ items' = todays_of(listing, d)
                   /\ idx' = 1
                   /\ lastEnd' = "none"
                   /\ UNCHANGED <<to_send, cur>>
    /\ UNCHANGED <<prog, listing, delivered, w, seg, hdr, scan, img>>

\* After the loop: the state is saved and main returns.
news_main_save ==
    /\ prog \in NewsProgs
    /\ pc = "loop"
    /\ loop_done(idx, items)
    /\ file' = save_state(prog, file, notified)
    /\ run' = [run EXCEPT !.writes = @ + 1]
    /\ EndRun("normal")
    /\ UNCHANGED <<prog, listing, today, runs, repeat, delivered, w, seg, hdr, scan, img>>

\* "if it["url"] in notified: skipped += 1; continue"
news_main_skip ==
    /\ prog \in NewsProgs
    /\ pc = "loop"
    /\ ~loop_done(idx, items)
    /\ already_notified(notified, NewsKey, items[idx].url)
    /\ idx' = idx + 1
    /\ UNCHANGED <<prog, listing, file, pc, notified, today, items, to_send, cur,
                   runs, lastEnd, repeat, run, delivered, w, seg, hdr, scan, img>>

\* The post function is entered: parse_news_detail fetches the detail page.
news_post_parse ==
    /\ prog \in NewsProgs
    /\ pc = "loop"
    /\ ~loop_done(idx, items)
    /\ ~already_notified(notified, NewsKey, items[idx].url)
    /\ \/ \* fetch(detail_url) raises: the error leaves main
          /\ run' = [run EXCEPT !.tried = @ \cup {<<NewsKey, items[idx].url>>}]
          /\ file' = raise_out_of_main(prog, file, notified)
          /\ EndRun("item_error")
       \/ \E o \in 0..MaxOverflow, i \in 0..MaxImages :
            /\ cur' = [NoCur EXCEPT !.key = NewsKey, !.url = items[idx].url,
                                    !.over = IF prog = "bokuao_news" THEN o ELSE 0,
                                    !.images = i]
            /\ pc' = IF prog = "bokuao_news" THEN "embed" ELSE "single"
            /\ run' = [run EXCEPT !.tried = @ \cup {<<NewsKey, items[idx].url>>}]
            /\ UNCHANGED <<file, notified, items, to_send, idx, lastEnd>>
    /\ UNCHANGED <<prog, listing, today, runs, repeat, delivered, w, seg, hdr, scan, img>>

\* webhook_post_json(payload1): the primary embed.
post_embed ==
    /\ pc = "embed"
    /\ \E s \in Scripts :
        LET r == deliver(prog, "json", s)
            c2 == [cur EXCEPT !.embed = TRUE]
        IN  IF r.result = "returned"
            THEN /\ cur' = c2
                 /\ pc' = after_text_post(prog, c2)
                 /\ Observe(cur, c2, r.posts, Call("embed", 0, TRUE))
                 /\ UNCHANGED <<file, notified, items, to_send, idx, lastEnd>>
            ELSE /\ ObserveFailed(r.posts, Call("embed", 0, FALSE))
                 /\ file' = raise_out_of_main(prog, file, notified)
                 /\ EndRun("item_error")
    /\ UNCHANGED <<prog, listing, today, runs, repeat, w, seg, hdr, scan, img>>

\* "for msg in overflow_msgs: webhook_post_json(payload)": the next message.
post_overflow ==
    /\ pc = "overflow"
    /\ cur.sentOver < cur.over
    /\ \E s \in Scripts :
        LET r == deliver(prog, "json", s)
            c2 == [cur EXCEPT !.sentOver = @ + 1]
        IN  IF r.result = "returned"
            THEN /\ cur' = c2
                 /\ pc' = after_text_post(prog, c2)
                 /\ Observe(cur, c2, r.posts, Call("overflow", cur.sentOver + 1, TRUE))
                 /\ UNCHANGED <<file, notified, items, to_send, idx, lastEnd>>
            ELSE /\ ObserveFailed(r.posts, Call("overflow", cur.sentOver + 1, FALSE))
                 /\ file' = raise_out_of_main(prog, file, notified)
                 /\ EndRun("item_error")
    /\ UNCHANGED <<prog, listing, today, runs, repeat, w, seg, hdr, scan, img>>

\* imgs = images[:MAX_IMAGES_PER_POST]; "if not imgs: return";
\* files = download_images(imgs); "if not files: return"
post_images ==
    /\ pc = "images"
    /\ LET imgs == Min(cur.images, MAX_IMAGES_PER_POST)
       IN  \E f \in 0..imgs :
            LET c2 == IF f = 0 THEN [cur EXCEPT !.img = "none"]
                      ELSE [cur EXCEPT !.files = f]
            IN  /\ cur' = c2
                /\ pc' = IF f = 0 THEN "record" ELSE "files"
                /\ Observe(cur, c2, 0, NoCall)
    /\ UNCHANGED <<prog, listing, file, notified, today, items, to_send, idx, runs,
                   lastEnd, repeat, w, seg, hdr, scan, img>>

\* webhook_post_with_files(payload_img, files): the image batch.
post_files ==
    /\ pc = "files"
    /\ \E s \in Scripts :
        LET r == deliver(prog, "files", s)
            c2 == [cur EXCEPT !.img = "accepted"]
        IN  IF r.result = "returned"
            THEN /\ cur' = c2
                 /\ pc' = "record"
                 /\ Observe(cur, c2, r.posts, Call("files", 0, TRUE))
                 /\ UNCHANGED <<file, notified, items, to_send, idx, lastEnd>>
            ELSE /\ ObserveFailed(r.posts, Call("files", 0, FALSE))
                 /\ file' = raise_out_of_main(prog, file, notified)
                 /\ EndRun("item_error")
    /\ UNCHANGED <<prog, listing, today, runs, repeat, w, seg, hdr, scan, img>>

\* notify_bokuao_news.post_news_item after the parse: download_images(imgs)
\* when there are images, then the one POST, with the files or without.
news_post_single ==
    /\ pc = "single"
    /\ \E f \in 0..Min(cur.images, MAX_IMAGES_PER_POST), s \in Scripts :
        LET r == deliver(prog, IF f > 0 THEN "files" ELSE "json", s)
            c2 == [cur EXCEPT !.embed = TRUE, !.files = f,
                              !.img = IF f > 0 THEN "accepted" ELSE "none"]
        IN  IF r.result = "returned"
            THEN /\ cur' = c2
                 /\ pc' = "record"
                 /\ Observe(cur, c2, r.posts, Call("single", 0, TRUE))
                 /\ UNCHANGED <<file, notified, items, to_send, idx, lastEnd>>
            ELSE /\ ObserveFailed(r.posts, Call("single", 0, FALSE))
                 /\ file' = raise_out_of_main(prog, file, notified)
                 /\ EndRun("item_error")
    /\ UNCHANGED <<prog, listing, today, runs, repeat, w, seg, hdr, scan, img>>

\* notify_bokuao.main up to the collection loop: load_state, the target date
\* and list_detail_urls().
blog_main_start ==
    /\ prog = "notify_bokuao"
    /\ pc = "idle"
    /\ runs < MaxRuns
    /\ runs' = runs + 1
    /\ \E d \in Dates :
        /\ today' = d
        /\ repeat' = (lastEnd = "normal" /\ d = today)
        /\ run' = StartRun(d)
        /\ \/ \* fetch(list_url) raises inside list_detail_urls
              /\ file' = raise_out_of_main(prog, file, load_state(file))
              /\ EndRun("listing_error")
           \/ /\ file' = file
              /\ pc' = "collect"
              /\ notified' = load_state(file)
              /\ items' = listing
              /\ to_send' = <<>>
              /\ idx' = 1
              /\ lastEnd' = "none"
              /\ cur' = NoCur
    /\ UNCHANGED <<prog, listing, delivered, w, seg, hdr, scan, img>>

\* One iteration of "for url in list_detail_urls()": parse_post and the three
\* filters (target date, target author, not yet notified).
blog_collect ==
    /\ prog = "notify_bokuao"
    /\ pc = "collect"
    /\ idx <= Len(items)
    /\ \/ \* fetch(post_url) raises inside parse_post
          /\ file' = raise_out_of_main(prog, file, notified)
          /\ EndRun("item_error")
       \/ LET post == items[idx]
          IN  /\ IF /\ post.date = today
                    /\ post.key \in AuthorKeys
                    /\ ~already_notified(notified, post.key, post.url)
                 THEN \E i \in 0..MaxImages :
                        to_send' = Append(to_send, [key |-> post.key,
                                                    url |-> post.url,
                                                    images |-> i])
                 ELSE to_send' = to_send
              /\ idx' = idx + 1
              /\ UNCHANGED <<file, pc, notified, items, cur, lastEnd>>
    /\ UNCHANGED <<prog, listing, today, runs, repeat, run, delivered, w, seg,
                   hdr, scan, img>>

\* After the collection loop: "if not to_send: return", else the send loop.
blog_collect_done ==
    /\ prog = "notify_bokuao"
    /\ pc = "collect"
    /\ idx > Len(items)
    /\ IF to_send = <<>>
       THEN /\ EndRun("normal")
            /\ run' = run
       ELSE /\ pc' = "send"
            /\ idx' = 1
            /\ run' = [run EXCEPT !.entered = TRUE]
            /\ UNCHANGED <<notified, items, to_send, cur, lastEnd>>
    /\ UNCHANGED <<prog, listing, file, today, runs, repeat, delivered, w, seg, hdr, scan, img>>

\* "for author_key, post in to_send": post_to_discord_embed_then_images is
\* entered for the next pair.
blog_send_post ==
    /\ prog = "notify_bokuao"
    /\ pc = "send"
    /\ ~loop_done(idx, to_send)
    /\ cur' = [NoCur EXCEPT !.key = to_send[idx].key, !.url = to_send[idx].url,
                            !.images = to_send[idx].images]
    /\ pc' = "embed"
    /\ run' = [run EXCEPT !.tried = @ \cup {<<to_send[idx].key, to_send[idx].url>>}]
    /\ UNCHANGED <<prog, listing, file, notified, today, items, to_send, idx, runs,
                   lastEnd, repeat, delivered, w, seg, hdr, scan, img>>

\* After the send loop: the state is saved and main returns.
blog_main_save ==
    /\ prog = "notify_bokuao"
    /\ pc = "send"
    /\ loop_done(idx, to_send)
    /\ file' = save_state(prog, file, notified)
    /\ run' = [run EXCEPT !.writes = @ + 1]
    /\ EndRun("normal")
    /\ UNCHANGED <<prog, listing, today, runs, repeat, delivered, w, seg, hdr, scan, img>>

\* The post function has returned: the locator is recorded in memory.
main_record ==
    /\ pc = "record"
    /\ notified' = mark_notified(notified, cur.key, cur.url)
    /\ idx' = idx + 1
    /\ cur' = NoCur
    /\ pc' = loop_head(prog)
    /\ UNCHANGED <<prog, listing, file, today, items, to_send, runs, lastEnd,
                   repeat, run, delivered, w, seg, hdr, scan, img>>

NextDriver ==
    \/ news_main_start
    \/ news_main_save
    \/ news_main_skip
    \/ news_post_parse
    \/ post_embed
    \/ post_overflow
    \/ post_images
    \/ post_files
    \/ news_post_single
    \/ blog_main_start
    \/ blog_collect
    \/ blog_collect_done
    \/ blog_send_post
    \/ blog_main_save
    \/ main_record

Init == InitDriver /\ IdleRetry /\ IdleSeg /\ IdleStrip /\ IdleScan /\ IdleImages
Next == NextDriver
Spec == Init /\ [][Next]_vars

(***************************************************************************)
(* SpecRetry: one call of webhook_post_json or webhook_post_with_files of  *)
(* bokuao_news.py, one POST attempt per step, against any responses.       *)
(* w.seen is the history of the responses the call has met.                *)
(***************************************************************************)
Statuses == {200, 204, 304, 400, 429, 500, 503}
TextLens == {7, 1300}
Responses == {[exc |-> FALSE, status |-> s, text |-> t] : s \in Statuses, t \in TextLens}
                \cup {ExcResp}

DriverOff ==
    /\ prog = "bokuao_news"
    /\ listing = <<>>
    /\ file = EmptyState
    /\ pc = "off"
    /\ notified = EmptyState
    /\ today = 1
    /\ items = <<>>
    /\ to_send = <<>>
    /\ idx = 0
    /\ cur = NoCur
    /\ runs = 0
    /\ lastEnd = "none"
    /\ repeat = FALSE
    /\ run = NewRun(EmptyState)
    /\ delivered = [k \in Keys |-> [u \in Locs |-> 0]]

InitRetry ==
    /\ DriverOff
    /\ IdleSeg
    /\ IdleStrip
    /\ IdleScan
    /\ IdleImages
    /\ \E fn \in {"json", "files"} : w = [fn |-> fn, st |-> LoopStart, seen |-> <<>>]

\* requests.post(...) of the current attempt and everything the loop does with
\* its outcome, up to the next POST, the return or the raise.
webhook_post_step ==
    /\ w.st.result = "running"
    /\ \E r \in Responses :
        w' = [w EXCEPT !.st = webhook_attempt(w.fn, w.st, r),
                       !.seen = Append(@, r)]
    /\ UNCHANGED <<driverVars, seg, hdr, scan, img>>

NextRetry == webhook_post_step
SpecRetry == InitRetry /\ [][NextRetry]_vars

Is2xx(r) == ~r.exc /\ 200 <= r.status /\ r.status < 300
Is5xx(r) == ~r.exc /\ 500 <= r.status /\ r.status < 600

\* The last response the call observed (a raised RequestException brings no
\* response), as the (status, truncated body) pair an error would carry.
LastObserved(seen) ==
    LET got == {i \in DOMAIN seen : ~seen[i].exc}
    IN  IF got = {}
        THEN [status |-> NoneVal, body |-> NoneVal]
        ELSE LET last == CHOOSE i \in got : \A j \in got : j <= i
             IN  [status |-> seen[last].status,
                  body |-> Min(seen[last].text, BODY_LOG_LIMIT)]

\* C5: a delivery call makes at most 5 POST attempts and ends: it returns when
\* an attempt gets a 2xx, and it raises after the 5th failed attempt, with the
\* status and truncated body of the last response it observed.
C5_AtMostFiveAttemptsThenRaise ==
    /\ w.st.posts = Len(w.seen)
    /\ w.st.posts <= 5
    /\ w.st.result = "running" =>
          /\ w.st.posts < 5
          /\ \A i \in DOMAIN w.seen : ~Is2xx(w.seen[i])
    /\ w.st.result = "returned" => Is2xx(w.seen[Len(w.seen)])
    /\ w.st.result = "raised" =>
          /\ w.st.posts = 5
          /\ \A i \in DOMAIN w.seen : ~Is2xx(w.seen[i])
          /\ w.st.err = LastObserved(w.seen)
          /\ w.st.err.body <= 1200

\* C5 witness: the call has raised after five attempts whose last one was a
\* transport exception; the error carries the earlier 503 and its body cut to
\* 1200 characters.
C5_Witness ==
    /\ w.st.result = "raised"
    /\ Len(w.seen) = 5
    /\ w.seen[5].exc
    /\ w.st.err = [status |-> 503, body |-> 1200]

\* C6 (as claimed): a non-2xx response outside 500-599 is not retried: it is
\* the last response of the call, which has raised.
C6_NonTransientNotRetried ==
    \A i \in DOMAIN w.seen :
        (~w.seen[i].exc /\ ~Is2xx(w.seen[i]) /\ ~Is5xx(w.seen[i])) =>
            (i = Len(w.seen) /\ w.st.result = "raised")

(***************************************************************************)
(* Text.  A string is a sequence of atoms [k, id, lo, hi], each standing   *)
(* for hi - lo characters:                                                 *)
(*   k = "p"      characters lo+1..hi of paragraph id of the body (no      *)
(*                white space at either end)                               *)
(*   k = "nl"     hi - lo newline characters                               *)
(*   k = "foot"   characters of the footer line "{category} / {date}"      *)
(*   k = "title"  characters of the title                                  *)
(*   k = "mark"   the four characters of the continuation header           *)
(*   k = "ell"    the ellipsis character that truncate appends             *)
(* so that slicing, stripping, splitting and joining are computed on the   *)
(* real lengths and two strings are equal iff their merged atoms are.      *)
(***************************************************************************)
Atom(k, id, lo, hi) == [k |-> k, id |-> id, lo |-> lo, hi |-> hi]
ParaText(id, n) == IF n = 0 THEN <<>> ELSE <<Atom("p", id, 0, n)>>
NL(n) == Atom("nl", 0, 0, n)
FootText(n) == <<Atom("foot", 0, 0, n)>>
TitleText(n) == IF n = 0 THEN <<>> ELSE <<Atom("title", 0, 0, n)>>
MarkText == <<Atom("mark", 0, 0, 4), NL(1)>>        \* "（続き）\n"
EllText == <<Atom("ell", 0, 0, 1)>>                 \* "…"

ALen(a) == a.hi - a.lo

\* len(s)
RECURSIVE TLen(_)
TLen(t) == IF t = <<>> THEN 0 ELSE ALen(Head(t)) + TLen(Tail(t))

\* s[:n]
RECURSIVE TTake(_, _)
TTake(t, n) ==
    IF n <= 0 \/ t = <<>> THEN <<>>
    ELSE IF ALen(Head(t)) <= n
    THEN <<Head(t)>> \o TTake(Tail(t), n - ALen(Head(t)))
    ELSE <<[Head(t) EXCEPT !.hi = Head(t).lo + n]>>

\* s[n:]
RECURSIVE TDrop(_, _)
TDrop(t, n) ==
    IF t = <<>> THEN <<>>
    ELSE IF n <= 0 THEN t
    ELSE IF ALen(Head(t)) <= n
    THEN TDrop(Tail(t), n - ALen(Head(t)))
    ELSE <<[Head(t) EXCEPT !.lo = Head(t).lo + n]>> \o Tail(t)

IsSpace(a) == a.k = "nl"

\* s.lstrip(), s.rstrip(), s.strip()
RECURSIVE LStrip(_)
LStrip(t) == IF t # <<>> /\ IsSpace(Head(t)) THEN LStrip(Tail(t)) ELSE t
RECURSIVE RStrip(_)
RStrip(t) ==
    IF t # <<>> /\ IsSpace(t[Len(t)]) THEN RStrip(SubSeq(t, 1, Len(t) - 1)) ELSE t
Strip(t) == LStrip(RStrip(t))

\* [p.strip() for p in s.split("\n\n") if p.strip()]: a run of two or more
\* newlines separates paragraphs (what is left of an odd run is stripped).
RECURSIVE SplitParas(_, _, _)
SplitParas(t, para, out) ==
    LET flushed == IF Strip(para) = <<>> THEN out ELSE Append(out, Strip(para))
    IN  IF t = <<>> THEN flushed
        ELSE IF IsSpace(Head(t)) /\ ALen(Head(t)) >= 2
        THEN SplitParas(Tail(t), <<>>, flushed)
        ELSE SplitParas(Tail(t), Append(para, Head(t)), out)
Paras(t) == SplitParas(t, <<>>, <<>>)

\* "\n\n".join(ps)
RECURSIVE JoinParas(_)
JoinParas(ps) ==
    IF ps = <<>> THEN <<>>
    ELSE IF Len(ps) = 1 THEN ps[1]
    ELSE ps[1] \o <<NL(2)>> \o JoinParas(Tail(ps))

\* Adjacent slices of one run of characters merged: the canonical form that
\* decides equality of strings.
RECURSIVE Merge(_)
Merge(t) ==
    IF Len(t) < 2 THEN t
    ELSE LET a == t[1]
             b == t[2]
         IN  IF a.k = b.k /\ a.id = b.id /\ a.hi = b.lo
             THEN Merge(<<[a EXCEPT !.hi = b.hi]>> \o SubSeq(t, 3, Len(t)))
             ELSE <<a>> \o Merge(Tail(t))

(***************************************************************************)
(* The segmenter of bokuao_news.py.                                        *)
(***************************************************************************)
DISCORD_CONTENT_LIMIT == 2000
EMBED_TITLE_LIMIT == 256
EMBED_DESC_LIMIT_HARD == 4096
EMBED_DESC_LIMIT_SOFT == 4000

\* Faulty variant: nothing is ever cut.
truncate_never(s, limit) == s

\* truncate(s, limit)
truncate(s, limit) ==
    IF s = <<>> THEN <<>>
    ELSE IF TLen(s) <= limit THEN s
    ELSE TTake(s, Max(0, limit - 1)) \o EllText

\* The "while len(p) > limit" loop of chunk_text_by_paragraph: the chunks
\* with the forced cuts of p appended, and what is left of p.
RECURSIVE hard_split(_, _, _)
hard_split(p, limit, chunks) ==
    IF TLen(p) > limit
    THEN hard_split(TDrop(p, limit), limit, Append(chunks, TTake(p, limit)))
    ELSE [chunks |-> chunks, p |-> p]

\* The "for p in paras" loop of chunk_text_by_paragraph from paragraph i on,
\* and the final flush().
RECURSIVE chunk_loop(_, _, _, _, _)
chunk_loop(paras, i, buf, chunks, limit) ==
    LET flushed == IF buf # <<>> THEN Append(chunks, buf) ELSE chunks
    IN  IF i > Len(paras) THEN flushed
        ELSE LET candidate ==
                     Strip(buf \o (IF buf # <<>> THEN <<NL(2)>> ELSE <<>>) \o paras[i])
             IN  IF TLen(candidate) <= limit
                 THEN chunk_loop(paras, i + 1, candidate, chunks, limit)
                 ELSE LET h == hard_split(paras[i], limit, flushed)
                      IN  chunk_loop(paras, i + 1, h.p, h.chunks, limit)

\* chunk_text_by_paragraph(text, limit)
chunk_text_by_paragraph(text, limit) ==
    IF Strip(text) = <<>> THEN <<>>
    ELSE chunk_loop(Paras(Strip(text)), 1, <<>>, <<>>, limit)

\* The "for p in paras" loop of split_for_embed: the paragraphs accumulated.
RECURSIVE embed_acc(_, _, _, _, _)
embed_acc(paras, i, acc, c, limit) ==
    IF i > Len(paras) THEN acc
    ELSE LET add == TLen(paras[i]) + (IF acc # <<>> THEN 2 ELSE 0)
         IN  IF c + add <= limit
             THEN embed_acc(paras, i + 1, Append(acc, paras[i]), c + add, limit)
             ELSE acc

\* Faulty variant: the body is never cut.
split_for_embed_whole(body0, embed_body_limit) == <<Strip(body0), <<>>>>

\* split_for_embed(body, embed_body_limit): <<primary, rest>>
split_for_embed(body0, embed_body_limit) ==
    LET body == Strip(body0)
    IN  IF body = <<>> THEN <<<<>>, <<>>>>
        ELSE IF TLen(body) <= embed_body_limit THEN <<body, <<>>>>
        ELSE LET acc == embed_acc(Paras(body), 1, <<>>, 0, embed_body_limit)
             IN  IF acc # <<>>
                 THEN LET primary == Strip(JoinParas(acc))
                      IN  <<primary, LStrip(TDrop(body, TLen(primary)))>>
                 ELSE <<TTake(body, embed_body_limit), TDrop(body, embed_body_limit)>>

\* embed_body_limit = max(0, EMBED_DESC_LIMIT_SOFT - reserve)
embed_body_limit_of(footer_line) ==
    LET reserve == IF footer_line # <<>> THEN 2 + TLen(footer_line) ELSE 0
    IN  Max(0, EMBED_DESC_LIMIT_SOFT - reserve)

\* build_embed_and_overflow_messages(title, url, body, category, date)
build_embed_and_overflow_messages(title, body0, footer_line) ==
    LET body == Strip(body0)
        sp == split_for_embed(body, embed_body_limit_of(footer_line))
        body_for_embed == sp[1]
        rest == Strip(sp[2])
        desc == IF Strip(body_for_embed) # <<>>
                THEN RStrip(body_for_embed)
                        \o (IF footer_line # <<>> THEN <<NL(2)>> \o footer_line ELSE <<>>)
                ELSE footer_line
        chunks == chunk_text_by_paragraph(rest, DISCORD_CONTENT_LIMIT)
    IN  [title |-> truncate(title, EMBED_TITLE_LIMIT),
         description |-> truncate(desc, EMBED_DESC_LIMIT_HARD),
         overflow |->
            IF rest # <<>> /\ chunks # <<>>
            THEN <<truncate(MarkText \o chunks[1], DISCORD_CONTENT_LIMIT)>> \o Tail(chunks)
            ELSE <<>>]

(***************************************************************************)
(* SpecSeg: build_embed_and_overflow_messages applied to a body of up to   *)
(* MaxParas paragraphs joined by blank lines, a title, a category and a    *)
(* date.  Lengths are chosen around the limits.                            *)
(***************************************************************************)
MaxParas == 3

ParaLens == {1, 1990, 1996, 2000, 2001, 3981, 3982, 5000}
TitleLens == {0, 20, 256, 257}
CatLens == {4, 4090}        \* "NEWS"; a category longer than the description
DateLen == 10               \* "2026.01.01"

\* The normalized body: "\n\n".join(paras)
BodyOf(lens) == JoinParas([i \in DOMAIN lens |-> ParaText(i, lens[i])])

\* footer_line = f"{category} / {date}".strip()
FooterOf(cat) == FootText(cat + 3 + DateLen)

InitSeg ==
    /\ DriverOff
    /\ IdleRetry
    /\ IdleStrip
    /\ IdleScan
    /\ IdleImages
    /\ \E n \in 0..MaxParas, t \in TitleLens, c \in CatLens :
        \E lens \in [1..n -> ParaLens] :
            seg = [phase |-> "in", title |-> t, cat |-> c, paras |-> lens]

build_step ==
    /\ seg.phase = "in"
    /\ seg' = [phase |-> "out", title |-> seg.title, cat |-> seg.cat,
               paras |-> seg.paras,
               out |-> build_embed_and_overflow_messages(
                          TitleText(seg.title), BodyOf(seg.paras), FooterOf(seg.cat))]
    /\ UNCHANGED <<driverVars, w, hdr, scan, img>>

\* The budgets split_for_embed is applied with: the plain-message limit and
\* the embed budget left by the footer "NEWS / 2026.01.01".
Budgets == {DISCORD_CONTENT_LIMIT, embed_body_limit_of(FooterOf(4))}

\* "chunks[0] = truncate(header + chunks[0], DISCORD_CONTENT_LIMIT)"
with_continuation_header(chunks) ==
    IF chunks = <<>> THEN <<>>
    ELSE <<truncate(MarkText \o chunks[1], DISCORD_CONTENT_LIMIT)>> \o Tail(chunks)

\* split_for_embed(body, L) on its own, and what build_embed_and_overflow_messages
\* then makes of the rest: the chunks and the overflow messages.
split_step ==
    /\ seg.phase = "in"
    /\ \E L \in Budgets :
        LET sp == split_for_embed(BodyOf(seg.paras), L)
            chunks == chunk_text_by_paragraph(Strip(sp[2]), DISCORD_CONTENT_LIMIT)
        IN  seg' = [phase |-> "split", title |-> seg.title, cat |-> seg.cat,
                    paras |-> seg.paras, L |-> L, primary |-> sp[1], rest |-> sp[2],
                    chunks |-> chunks, msgs |-> with_continuation_header(chunks)]
    /\ UNCHANGED <<driverVars, w, hdr, scan, img>>

NextSeg == build_step \/ split_step
SpecSeg == InitSeg /\ [][NextSeg]_vars

\* C7: the embed title is at most 256 characters, the description at most
\* 4096 and, when the footer leaves room for body text (the normal path), at
\* most 4000; every overflow message, the first with its continuation header
\* included, is at most 2000 characters.
C7_SegmentBound ==
    seg.phase = "out" =>
        /\ TLen(seg.out.title) <= 256
        /\ TLen(seg.out.description) <= 4096
        /\ (2 + TLen(FooterOf(seg.cat)) <= 4000 => TLen(seg.out.description) <= 4000)
        /\ \A i \in DOMAIN seg.out.overflow : TLen(seg.out.overflow[i]) <= 2000

\* C7 witness: a title that had to be cut, a description of exactly 4000
\* characters and two overflow messages, the first filled to 2000.
C7_Witness ==
    /\ seg.phase = "out"
    /\ seg.title = 257
    /\ TLen(seg.out.title) = 256
    /\ TLen(seg.out.description) = 4000
    /\ Len(seg.out.overflow) >= 2
    /\ TLen(seg.out.overflow[1]) = 2000

\* The body needs no forced cut: its first paragraph fits the embed's budget
\* and every paragraph left for the overflow fits one message.
NoHardCut ==
    LET lens == seg.paras
        body == BodyOf(lens)
        L == embed_body_limit_of(FooterOf(seg.cat))
        inEmbed == IF TLen(body) <= L THEN Len(lens)
                   ELSE Len(embed_acc(Paras(body), 1, <<>>, 0, L))
    IN  /\ Len(lens) > 0 => lens[1] <= L
        /\ \A i \in DOMAIN lens : i > inEmbed => lens[i] <= DISCORD_CONTENT_LIMIT

\* The description without the footer line, and the first overflow message
\* without the continuation header.
WithoutFooter(desc, footer_line) ==
    IF desc = footer_line THEN <<>>
    ELSE IF /\ Len(desc) > Len(footer_line) + 1
            /\ SubSeq(desc, Len(desc) - Len(footer_line), Len(desc))
                  = <<NL(2)>> \o footer_line
    THEN SubSeq(desc, 1, Len(desc) - Len(footer_line) - 1)
    ELSE desc
WithoutMarker(msg) ==
    IF Len(msg) >= 2 /\ SubSeq(msg, 1, 2) = MarkText THEN SubSeq(msg, 3, Len(msg)) ELSE msg

\* The segments joined at paragraph boundaries.
Reassembled ==
    LET first == WithoutFooter(seg.out.description, FooterOf(seg.cat))
        more == [i \in DOMAIN seg.out.overflow |->
                    IF i = 1 THEN WithoutMarker(seg.out.overflow[i])
                    ELSE seg.out.overflow[i]]
    IN  Merge(JoinParas(SelectSeq(<<first>> \o more, LAMBDA x : x # <<>>)))

\* C8 (as claimed): for a body that needs no forced cut, the embed body and
\* the overflow messages, joined at paragraph boundaries with only the
\* continuation header and the footer line removed, are the body.
C8_RoundTrip ==
    (seg.phase = "out" /\ NoHardCut) => Reassembled = Merge(BodyOf(seg.paras))

\* The strings of a sequence, one after the other.
RECURSIVE Concat(_)
Concat(ts) == IF ts = <<>> THEN <<>> ELSE Head(ts) \o Concat(Tail(ts))

\* C14: when the first paragraph of the body alone exceeds the budget L,
\* split_for_embed returns the first L characters of the body as the primary
\* segment and the remaining characters as the overflow; for one paragraph of
\* 5000 characters and L = 2000 the primary is the first 2000 characters, the
\* overflow the remaining 3000, and the overflow is chunked into at least 2
\* plain segments that together are the overflow.
C14_OversizedFirstParagraph ==
    (seg.phase = "split" /\ seg.paras # <<>> /\ seg.paras[1] > seg.L) =>
        LET body == BodyOf(seg.paras)
        IN  /\ Merge(seg.primary) = <<Atom("p", 1, 0, seg.L)>>
            /\ TLen(seg.primary) = seg.L
            /\ TLen(seg.rest) = TLen(body) - seg.L
            /\ Merge(seg.primary \o seg.rest) = Merge(body)
            /\ (seg.paras = <<5000>> /\ seg.L = 2000) =>
                  /\ Merge(seg.rest) = <<Atom("p", 1, 2000, 5000)>>
                  /\ TLen(seg.rest) = 3000
                  /\ Len(seg.chunks) >= 2
                  /\ Merge(Concat(seg.chunks)) = Merge(seg.rest)
                  /\ Len(seg.msgs) >= 2

\* C14 witness: one paragraph of 5000 characters split with L = 2000, its
\* overflow in two chunks.
C14_Witness ==
    /\ seg.phase = "split"
    /\ seg.paras = <<5000>>
    /\ seg.L = 2000
    /\ TLen(seg.primary) = 2000
    /\ [i \in DOMAIN seg.chunks |-> TLen(seg.chunks[i])] = <<2000, 1000>>

(***************************************************************************)
(* SpecStrip: strip_leading_header_lines of bokuao_news.py applied to a    *)
(* paragraph list, and then to its own output.  A string is a sequence of  *)
(* symbols:                                                                *)
(*   " "  a space, "_" an ideographic space (U+3000), "\n" a newline       *)
(*   "x", "y"   ordinary characters                                        *)
(*   "D"        a date, "2026.01.01" (the only text NEWS_DATE_RE matches)  *)
(*   "NE", "WS" the two halves of "NEWS"                                   *)
(*   "O"        "OTHER"                                                    *)
(*   "S"        "SHARE"                                                    *)
(***************************************************************************)
StrWhite == {" ", "_", "\n"}        \* what str.strip() removes
NormWhite == {" ", "_"}             \* what re.sub(r"[ \u3000]+", "", s) removes

\* s.strip()
RECURSIVE StrLStrip(_)
StrLStrip(s) == IF s # <<>> /\ Head(s) \in StrWhite THEN StrLStrip(Tail(s)) ELSE s
RECURSIVE StrRStrip(_)
StrRStrip(s) ==
    IF s # <<>> /\ s[Len(s)] \in StrWhite THEN StrRStrip(SubSeq(s, 1, Len(s) - 1)) ELSE s
StrStrip(s) == StrLStrip(StrRStrip(s))

\* _norm_comp(s)
norm_comp(s) == SelectSeq(StrStrip(s), LAMBDA ch : ch \notin NormWhite)

\* NEWS_DATE_RE.fullmatch(head_raw)
date_fullmatch(s) == s = <<"D">>

\* NEWS_CATEGORIES (the members the alphabet can spell)
NEWS_CATEGORIES == {<<"O">>, <<"NE", "WS">>}

\* ("NEWS", "SHARE", "BACK", "SUPPORT") (the members the alphabet can spell)
HeaderLabels == {<<"NE", "WS">>, <<"S">>}

\* The tests of one iteration of the first while loop: out[0] is popped.
is_leading_header(line, t, c, d) ==
    LET head_raw == StrStrip(line)
        head == norm_comp(head_raw)
    IN  \/ head = <<>>
        \/ head = t \/ head = c \/ head = d
        \/ date_fullmatch(head_raw)
        \/ head_raw \in NEWS_CATEGORIES
        \/ head \in HeaderLabels

\* The first while loop: pop while the head is a header line.
RECURSIVE strip_loop(_, _, _, _)
strip_loop(out, t, c, d) ==
    IF out # <<>> /\ is_leading_header(out[1], t, c, d)
    THEN strip_loop(Tail(out), t, c, d)
    ELSE out

\* The second while loop: pop while the head is blank.
RECURSIVE drop_blank(_)
drop_blank(out) ==
    IF out # <<>> /\ StrStrip(out[1]) = <<>> THEN drop_blank(Tail(out)) ELSE out

\* Faulty variant: one header line is removed per call.
strip_leading_header_lines_one(lines, title, category, date) ==
    IF lines # <<>>
          /\ is_leading_header(lines[1], norm_comp(title), norm_comp(category),
                               norm_comp(date))
    THEN Tail(lines)
    ELSE lines

\* strip_leading_header_lines(lines, title, category, date)
strip_leading_header_lines(lines, title, category, date) ==
    drop_blank(strip_loop(lines, norm_comp(title), norm_comp(category),
                          norm_comp(date)))

MaxLines == 3

\* Paragraphs: blank ones, the title as it is and spaced out, a date bare
\* and padded, category words, labels, and body text.
LinePool ==
    {<<>>, <<" ", "\n">>, <<"x", "y">>, <<"x", "_", "y">>, <<"D">>, <<" ", "D">>,
     <<"O">>, <<"NE", " ", "WS">>, <<"S">>, <<"y">>, <<"D", "x">>}
TitlePool == {<<"x", "y">>, <<"x", " ", "y">>, <<>>}
CategoryPool == {<<"O">>, <<"y">>}
DatePool == {<<"D">>, <<"x">>}

InitStrip ==
    /\ DriverOff
    /\ IdleRetry
    /\ IdleSeg
    /\ IdleScan
    /\ IdleImages
    /\ \E n \in 0..MaxLines, t \in TitlePool, c \in CategoryPool, d \in DatePool :
        \E lines \in [1..n -> LinePool] :
            hdr = [phase |-> "in", lines |-> lines, title |-> t, category |-> c,
                   date |-> d]

\* paras = strip_leading_header_lines(paras, title, category, date)
strip_step ==
    /\ hdr.phase = "in"
    /\ hdr' = [phase |-> "once", lines |-> hdr.lines, title |-> hdr.title,
               category |-> hdr.category, date |-> hdr.date,
               once |-> strip_leading_header_lines(hdr.lines, hdr.title,
                                                   hdr.category, hdr.date)]
    /\ UNCHANGED <<driverVars, w, seg, scan, img>>

\* The function applied to its own output, with the same title, category
\* and date.
strip_again_step ==
    /\ hdr.phase = "once"
    /\ hdr' = [phase |-> "twice", lines |-> hdr.lines, title |-> hdr.title,
               category |-> hdr.category, date |-> hdr.date, once |-> hdr.once,
               twice |-> strip_leading_header_lines(hdr.once, hdr.title,
                                                    hdr.category, hdr.date)]
    /\ UNCHANGED <<driverVars, w, seg, scan, img>>

NextStrip == strip_step \/ strip_again_step
SpecStrip == InitStrip /\ [][NextStrip]_vars

\* C12: header stripping is idempotent: strip_leading_header_lines applied to
\* its own output, with the same title, category and date, returns that
\* output unchanged.
C12_StripIdempotent ==
    hdr.phase = "twice" => hdr.twice = hdr.once

\* C12 witness: the first application removed leading lines and kept, behind
\* the first body paragraph, a line that would have been removed at the head;
\* the second application has run.
C12_Witness ==
    /\ hdr.phase = "twice"
    /\ Len(hdr.once) = 2
    /\ Len(hdr.lines) = 3
    /\ is_leading_header(hdr.once[2], norm_comp(hdr.title), norm_comp(hdr.category),
                         norm_comp(hdr.date))

(***************************************************************************)
(* SpecScan: the listing scanners and uniq_keep_order.  An anchor of a     *)
(* listing page is [form, id, dated, at]: its href is the relative or the  *)
(* absolute form of the locator id, its text holds a date token or not,    *)
(* and at is its position among all anchors scanned (what tells two        *)
(* anchors of one locator apart).                                          *)
(***************************************************************************)
MaxAnchors == 4

Hrefs == {"A", "B", "C"}
AnchorKinds ==
    {[form |-> "rel", dated |-> TRUE], [form |-> "abs", dated |-> TRUE],
     [form |-> "rel", dated |-> FALSE]}

\* urljoin(list_url, href): both forms of a locator resolve to one URL.
urljoin(a) == <<"https://bokuao.com", a.id>>

\* Faulty variant: a new locator is put in front of the ones found so far.
RECURSIVE uniq_loop_prepend(_, _, _, _)
uniq_loop_prepend(xs, i, seen, out) ==
    IF i > Len(xs) THEN out
    ELSE IF xs[i].url \in seen
    THEN uniq_loop_prepend(xs, i + 1, seen, out)
    ELSE uniq_loop_prepend(xs, i + 1, seen \cup {xs[i].url}, <<xs[i]>> \o out)

\* "for x in items: if x in seen: continue; seen.add(x); out.append(x)"
\* from item i on (an item is compared by its url).
RECURSIVE uniq_loop(_, _, _, _)
uniq_loop(xs, i, seen, out) ==
    IF i > Len(xs) THEN out
    ELSE IF xs[i].url \in seen
    THEN uniq_loop(xs, i + 1, seen, out)
    ELSE uniq_loop(xs, i + 1, seen \cup {xs[i].url}, Append(out, xs[i]))

\* uniq_keep_order(items)
uniq_keep_order(xs) == uniq_loop(xs, 1, {}, <<>>)

\* The entries a page yields: one per anchor, the news scanner discarding
\* the anchors whose text holds no date token.
EntriesOf(anchors, needDate) ==
    LET kept == SelectSeq(anchors, LAMBDA a : a.dated \/ ~needDate)
    IN  [i \in DOMAIN kept |-> [url |-> urljoin(kept[i]), at |-> kept[i].at]]

\* list_news_items_from_listpage(): the items of the one page, then the
\* seen/out loop over them.
list_news_items_from_listpage(page) ==
    uniq_loop(EntriesOf(page, TRUE), 1, {}, <<>>)

\* list_detail_urls(): "for list_url in LIST_URLS" from page p on, seen and
\* urls carried from page to page.
RECURSIVE list_detail_loop(_, _, _, _)
list_detail_loop(pages, p, seen, urls) ==
    IF p > Len(pages) THEN urls
    ELSE LET got == uniq_loop(EntriesOf(pages[p], FALSE), 1, seen, urls)
         IN  list_detail_loop(pages, p + 1, {got[i].url : i \in DOMAIN got}, got)

\* list_detail_urls()
list_detail_urls(pages) == list_detail_loop(pages, 1, {}, <<>>)

\* The anchors of the pages, page after page.
RECURSIVE Flatten(_)
Flatten(pages) == IF pages = <<>> THEN <<>> ELSE Head(pages) \o Flatten(Tail(pages))

ScanFns == {"list_news_items_from_listpage", "list_detail_urls", "uniq_keep_order"}

\* The pages a scanner reads: the news scanner and uniq_keep_order one
\* sequence, the blog scanner the sequence cut into two pages.
InitScan ==
    /\ DriverOff
    /\ IdleRetry
    /\ IdleSeg
    /\ IdleStrip
    /\ IdleImages
    /\ \E n \in 0..MaxAnchors, fn \in ScanFns :
        \E ids \in [1..n -> Hrefs], kinds \in [1..n -> AnchorKinds] :
            \E cut \in IF fn = "list_detail_urls" THEN 0..n ELSE {n} :
                LET anchors == [i \in 1..n |-> [form |-> kinds[i].form, id |-> ids[i],
                                                dated |-> kinds[i].dated, at |-> i]]
                IN  scan = [phase |-> "in", fn |-> fn,
                            pages |-> <<SubSeq(anchors, 1, cut),
                                        SubSeq(anchors, cut + 1, n)>>]

scan_step ==
    /\ scan.phase = "in"
    /\ scan' = [phase |-> "out", fn |-> scan.fn, pages |-> scan.pages,
                out |-> CASE scan.fn = "list_news_items_from_listpage" ->
                                list_news_items_from_listpage(scan.pages[1])
                          [] scan.fn = "list_detail_urls" ->
                                list_detail_urls(scan.pages)
                          [] scan.fn = "uniq_keep_order" ->
                                uniq_keep_order(EntriesOf(scan.pages[1], FALSE))]
    /\ UNCHANGED <<driverVars, w, seg, hdr, img>>

NextScan == scan_step
SpecScan == InitScan /\ [][NextScan]_vars

\* The listing entries the scanner deduplicates, in source order.
ScanEntries ==
    EntriesOf(Flatten(scan.pages), scan.fn = "list_news_items_from_listpage")

\* The positions of the first occurrences of the locators among the entries.
FirstOccurrences(e) ==
    {i \in DOMAIN e : \A j \in 1..(i - 1) : e[j].url # e[i].url}

\* C13: the scanner's output holds each locator of the entries exactly once,
\* and its k-th element is the k-th first occurrence among the entries: that
\* very entry, in the order of the source, within and across pages.
C13_DedupKeepsFirstInOrder ==
    scan.phase = "out" =>
        LET e == ScanEntries
            first == FirstOccurrences(e)
        IN  /\ Len(scan.out) = Cardinality(first)
            /\ \A k, h \in DOMAIN scan.out :
                    k # h => scan.out[k].url # scan.out[h].url
            /\ {scan.out[k].url : k \in DOMAIN scan.out} = {e[i].url : i \in DOMAIN e}
            /\ \A k \in DOMAIN scan.out :
                    \E i \in first :
                        /\ scan.out[k] = e[i]
                        /\ Cardinality({j \in first : j < i}) = k - 1

\* C13 witness: the blog scanner met entries A, B, A, C, the second A on the
\* second page and in the other form of the locator, and returned A, B, C.
C13_Witness ==
    /\ scan.phase = "out"
    /\ scan.fn = "list_detail_urls"
    /\ Len(scan.pages[1]) = 2
    /\ Len(scan.pages[2]) = 2
    /\ [i \in 1..4 |-> Flatten(scan.pages)[i].id] = <<"A", "B", "A", "C">>
    /\ Flatten(scan.pages)[1].form # Flatten(scan.pages)[3].form
    /\ [k \in DOMAIN scan.out |-> scan.out[k].url[2]] = <<"A", "B", "C">>

(***************************************************************************)
(* SpecImages: the image tail of a post function, for an item with any     *)
(* number of image locators: the cap, download_images one fetch per step,  *)
(* the POST that carries the files, and main recording the item.           *)
(*   bokuao_news, notify_bokuao: the text was delivered before; the files  *)
(*       go in a POST of their own, skipped when there is no file          *)
(*   notify_bokuao_news: one POST carries the text and the files, if any   *)
(* An image is named by its position among the item's locators.  What a    *)
(* fetch can do:                                                           *)
(*   "ok"          2xx, Content-Type image/jpeg, within MAX_IMAGE_BYTES    *)
(*   "exception"   requests.get raises                                     *)
(*   "non2xx"      raise_for_status raises                                 *)
(*   "wrong_type"  2xx with another Content-Type                           *)
(*   "too_big"     2xx, more than MAX_IMAGE_BYTES bytes                    *)
(***************************************************************************)
MaxImageUrls == 12

Outcomes == {"ok", "exception", "non2xx", "wrong_type", "too_big"}
SeparateBatch == {"bokuao_news", "notify_bokuao"}

\* Faulty variant: every locator of the item is fetched.
cap_images_all(n) == n

\* len(images[:MAX_IMAGES_PER_POST])
cap_images(n) == Min(n, MAX_IMAGES_PER_POST)

\* Faulty variant: a fetch error leaves download_images.
fetch_result_escalating(p, outcome) ==
    IF outcome \in {"exception", "non2xx"} THEN "raise"
    ELSE IF outcome = "ok" THEN "append" ELSE "continue"

\* One iteration of download_images: "append" (out.append) or "continue";
\* notify_bokuao_news does not look at the Content-Type.
fetch_result(p, outcome) ==
    CASE outcome \in {"exception", "non2xx"} -> "continue"     \* except Exception
      [] outcome = "wrong_type" ->
            IF p = "notify_bokuao_news" THEN "append" ELSE "continue"
      [] outcome = "too_big" -> "continue"
      [] outcome = "ok" -> "append"

InitImages ==
    /\ DriverOff
    /\ IdleRetry
    /\ IdleSeg
    /\ IdleStrip
    /\ IdleScan
    /\ \E p \in Progs, n \in 0..MaxImageUrls :
        img = [phase |-> "start", prog |-> p, n |-> n, imgs |-> 0, i |-> 0,
               fetched |-> <<>>, files |-> <<>>, good |-> {}, last |-> "none",
               text |-> p \in SeparateBatch, posts |-> 0, parts |-> 0,
               err |-> "none", recorded |-> FALSE]

\* imgs = images[:MAX_IMAGES_PER_POST]; "if not imgs: return"
\* (notify_bokuao_news: files = [] and the text is posted without files).
images_cap ==
    /\ img.phase = "start"
    /\ LET imgs == cap_images(img.n)
       IN  img' = [img EXCEPT !.imgs = imgs,
                              !.i = 1,
                              !.phase = IF imgs > 0 THEN "download"
                                        ELSE IF img.prog \in SeparateBatch
                                        THEN "returned" ELSE "post"]
    /\ UNCHANGED <<driverVars, w, seg, hdr, scan>>

\* One iteration of "for i, u in enumerate(urls, start=1)" in download_images.
fetch_image ==
    /\ img.phase = "download"
    /\ img.i <= img.imgs
    /\ \E outcome \in Outcomes :
        LET res == fetch_result(img.prog, outcome)
            got == [img EXCEPT !.fetched = Append(@, img.i),
                               !.last = outcome,
                               !.good = IF outcome = "ok" THEN @ \cup {img.i} ELSE @,
                               !.i = @ + 1]
        IN  img' = CASE res = "append" -> [got EXCEPT !.files = Append(@, img.i)]
                     [] res = "continue" -> got
                     [] res = "raise" -> [got EXCEPT !.phase = "raised",
                                                     !.err = "download"]
    /\ UNCHANGED <<driverVars, w, seg, hdr, scan>>

\* download_images returns: "if not files: return", else the POST.
download_done ==
    /\ img.phase = "download"
    /\ img.i > img.imgs
    /\ img' = [img EXCEPT !.phase = IF img.files = <<>> /\ img.prog \in SeparateBatch
                                    THEN "returned" ELSE "post"]
    /\ UNCHANGED <<driverVars, w, seg, hdr, scan>>

\* webhook_post_with_files(payload, files) (notify_bokuao_news without a
\* file: webhook_post_json(payload)): accepted, or raised.
image_post ==
    /\ img.phase = "post"
    /\ \E accepted \in BOOLEAN :
        img' = [img EXCEPT !.posts = @ + 1,
                           !.parts = Len(img.files),
                           !.text = @ \/ accepted,
                           !.phase = IF accepted THEN "returned" ELSE "raised",
                           !.err = IF accepted THEN "none" ELSE "post"]
    /\ UNCHANGED <<driverVars, w, seg, hdr, scan>>

\* The post function has returned: main records the item.
image_record ==
    /\ img.phase = "returned"
    /\ img' = [img EXCEPT !.phase = "recorded", !.recorded = TRUE]
    /\ UNCHANGED <<driverVars, w, seg, hdr, scan>>

NextImages ==
    \/ images_cap
    \/ fetch_image
    \/ download_done
    \/ image_post
    \/ image_record
SpecImages == InitImages /\ [][NextImages]_vars

\* The members of a set of positions in increasing order.
RECURSIVE Ascending(_)
Ascending(S) ==
    IF S = {} THEN <<>>
    ELSE LET m == CHOOSE x \in S : \A y \in S : x <= y
         IN  <<m>> \o Ascending(S \ {m})

\* C15: in bokuao_news (and notify_bokuao, whose function is the same) no
\* image fetch makes download_images raise, whatever it does; the files are
\* exactly the images whose fetch passed every test, in input order; with no
\* file no image-batch POST is issued; and only a failed image-batch POST, so
\* never a failed image, keeps the item from being recorded.
C15_ImageFailuresNeverEscalate ==
    (img.phase # "off" /\ img.prog \in SeparateBatch) =>
        /\ img.err # "download"
        /\ img.files = Ascending(img.good)
        /\ (img.phase \in {"returned", "recorded"} /\ img.files = <<>>) => img.posts = 0
        /\ img.phase = "raised" => (img.files # <<>> /\ img.posts = 1)
        /\ img.phase = "recorded" => (img.recorded /\ img.text)

\* C15 witness: every fetch of an item with images failed, the last one by
\* an exception; no POST was issued and the item is recorded.
C15_Witness ==
    /\ img.phase = "recorded"
    /\ img.prog = "bokuao_news"
    /\ Len(img.fetched) >= 2
    /\ img.last = "exception"
    /\ img.files = <<>>
    /\ img.posts = 0

\* C16: at most 10 image locators of an item are fetched, the first ones in
\* their order, each once; no locator beyond the 10th is fetched, and the
\* POST that carries the files has at most 10 file parts.
C16_AtMostTenImages ==
    img.phase # "off" =>
        /\ Len(img.fetched) <= 10
        /\ \A k \in DOMAIN img.fetched : img.fetched[k] = k /\ k <= img.n
        /\ Len(img.files) <= 10
        /\ img.parts <= 10
        /\ img.posts <= 1

\* C16 witness: an item with 12 image locators; ten were fetched and all ten
\* files went out in one POST.
C16_Witness ==
    /\ img.phase = "recorded"
    /\ img.n = 12
    /\ Len(img.fetched) = 10
    /\ img.posts = 1
    /\ img.parts = 10

(***************************************************************************)
(* Properties of the drivers (checked under Spec).                         *)
(***************************************************************************)
TargetKeys == IF prog \in NewsProgs THEN {NewsKey} ELSE AuthorKeys

\* The (key, locator) pairs the run was due to deliver: listed under the
\* target date, for a key with a webhook, not notified when the run loaded
\* the state.
Eligible ==
    {<<listing[i].key, listing[i].url>> : i \in
        {j \in DOMAIN listing : /\ listing[j].date = today
                                /\ listing[j].key \in TargetKeys
                                /\ listing[j].url \notin run.loaded[listing[j].key]}}

\* C1: a locator is in the in-memory notified set, and so in the state file,
\* only if its whole delivery sequence (primary POST, every overflow POST, the
\* image batch when one was attempted) was accepted; a locator added during
\* the current run was completely delivered during the current run.
C1_RecordedOnlyAfterFullDelivery ==
    \A k \in Keys, u \in Locs :
        /\ (u \in notified[k] \/ u \in file[k]) => delivered[k][u] >= 1
        /\ (pc # "idle" /\ u \in notified[k] /\ u \notin run.loaded[k])
              => <<k, u>> \in run.done

\* C1 witness: an item with an overflow message and an image batch has been
\* recorded by the news driver.
C1_Witness ==
    /\ prog = "bokuao_news"
    /\ pc = "loop"
    /\ run.posts >= 3
    /\ \E u \in Locs : u \in notified[NewsKey] /\ <<NewsKey, u>> \in run.done

\* C2 (as claimed): for any locator and recipient at most one successful
\* delivery sequence occurs over all runs, whether the runs end normally or
\* by a raised error.
C2_AtMostOneDelivery ==
    \A k \in Keys, u \in Locs : delivered[k][u] <= 1

\* C3: a run that follows a normally completed run with the same listing and
\* the same target date issues no POST and leaves the state file as it found
\* it.
C3_SecondRunIdempotent ==
    repeat => (run.posts = 0 /\ file = run.loaded)

\* C3 witness: such a second run has ended, with an item of the target date
\* that the first run saved.
C3_Witness ==
    /\ repeat
    /\ pc = "idle"
    /\ lastEnd = "normal"
    /\ \E i \in DOMAIN listing :
        /\ listing[i].date = today
        /\ listing[i].key \in TargetKeys
        /\ listing[i].url \in file[listing[i].key]

\* C4 (as claimed): when a run meets an item-level failure, the remaining
\* eligible items are still attempted and the locators delivered in the run
\* are in the state file when the run is over.
C4_ItemFailureIsolated ==
    (pc = "idle" /\ lastEnd = "item_error") =>
        /\ Eligible \subseteq run.tried
        /\ \A d \in run.done : d[2] \in file[d[1]]

\* C9: the notified set only grows: no step removes a locator from the state
\* file, for any recipient key, and no step of a run removes one from the
\* in-memory set.
C9_NotifiedOnlyGrows ==
    [][\A k \in Keys :
          /\ file[k] \subseteq file'[k]
          /\ (pc' # "idle" => notified[k] \subseteq notified'[k])]_vars

\* C9 witness: the blog driver has saved, and a recipient key that received
\* nothing in the run still holds what an earlier run recorded.
C9_Witness ==
    /\ prog = "notify_bokuao"
    /\ pc = "idle"
    /\ lastEnd = "normal"
    /\ run.writes = 1
    /\ \E k \in AuthorKeys :
        /\ file[k] # {}
        /\ \A u \in Locs : <<k, u>> \notin run.done

\* C10 (as claimed): every run that exits normally has written the state store
\* exactly once.
C10_EveryNormalRunWritesOnce ==
    (pc = "idle" /\ lastEnd = "normal") => run.writes = 1

\* C10 (amended): a run writes nothing while it is running; a run that exits
\* normally has written the store once, after every delivery it was due, if it
\* found an item to process, and not at all if it returned early.
C10_WriteOnceAtEndUnlessEarlyReturn ==
    /\ pc # "idle" => run.writes = 0
    /\ (pc = "idle" /\ lastEnd = "normal" /\ run.entered) =>
          (run.writes = 1 /\ Eligible \subseteq run.done)
    /\ (pc = "idle" /\ lastEnd = "normal" /\ ~run.entered) => run.writes = 0

\* C10 witness: a run has delivered two items and then written the store once.
C10_Witness ==
    /\ pc = "idle"
    /\ lastEnd = "normal"
    /\ run.writes = 1
    /\ Cardinality(run.done) >= 2

\* Position of a locator in the listing.
ListingPos(u) == CHOOSE i \in DOMAIN listing : listing[i].url = u

\* A step of the run issues a delivery call.
IssuesCall == run'.posts > run.posts

\* The delivery call b may follow the delivery call a of the same run: a was
\* accepted, and b is the next message of a's item or the first message of an
\* item further down the listing.
MayFollow(a, b) ==
    /\ a.ok
    /\ CASE b.kind \in {"embed", "single"} ->
                a.kind # "none" => ListingPos(a.url) < ListingPos(b.url)
         [] b.kind = "overflow" ->
                /\ a.url = b.url
                /\ b.n <= b.over
                /\ IF b.n = 1 THEN a.kind = "embed"
                   ELSE a.kind = "overflow" /\ a.n = b.n - 1
         [] b.kind = "files" ->
                /\ a.url = b.url
                /\ IF b.over = 0 THEN a.kind = "embed"
                   ELSE a.kind = "overflow" /\ a.n = b.over
         [] OTHER -> FALSE

C17_AbnormalRunPersistsNothing ==
    /\ (pc = "idle" /\ lastEnd \in {"listing_error", "item_error"}) =>
          file = run.loaded
    /\ \A d \in run.redo : d[2] \notin run.loaded[d[1]]
    /\ (pc = "idle" /\ lastEnd = "normal") =>
          \A d \in run.redo : d \in run.done /\ delivered[d[1]][d[2]] >= 2

\* C17 witness: a run delivered an item and then failed; the next run, with
\* the same target date, has delivered that item again and completed.
C17_Witness ==
    /\ pc = "idle"
    /\ lastEnd = "normal"
    /\ run.redo # {}
    /\ \A d \in run.redo : delivered[d[1]][d[2]] = 2

\* The sum of a sequence of numbers.
RECURSIVE Sum(_)
Sum(q) == IF q = <<>> THEN 0 ELSE Head(q) + Sum(Tail(q))

\* C18: in a delivery call (checked under SpecRetry) a 5xx response on
\* attempt k is followed, before anything else, by a sleep of exactly 2*k
\* seconds; every sleep of the call is the 2*k of an attempt k that did not get
\* a 2xx, so the waits strictly increase; a 2xx on attempt k ends the call
\* with no sleep after it and no further attempt; and the sleeps of one call
\* add up to at most 2+4+6+8+10 = 30 seconds.
C18_BackoffSchedule ==
    LET slept == w.st.slept
    IN  /\ \A k \in DOMAIN w.seen :
              Is5xx(w.seen[k]) => \E j \in DOMAIN slept : slept[j] = 2 * k
        /\ \A j \in DOMAIN slept :
              \E k \in DOMAIN w.seen : slept[j] = 2 * k /\ ~Is2xx(w.seen[k])
        /\ \A i, j \in DOMAIN slept : i < j => slept[i] < slept[j]
        /\ \A k \in DOMAIN w.seen :
              Is2xx(w.seen[k]) =>
                  /\ k = Len(w.seen)
                  /\ w.st.result = "returned"
                  /\ \A j \in DOMAIN slept : slept[j] # 2 * k
        /\ Sum(slept) <= 30

\* C18 witness: five attempts, each answered by a 5xx, with the waits 2, 4,
\* 6, 8 and 10 seconds: 30 seconds in all.
C18_Witness ==
    /\ Len(w.seen) = 5
    /\ \A k \in 1..5 : Is5xx(w.seen[k])
    /\ w.st.slept = <<2, 4, 6, 8, 10>>
    /\ Sum(w.st.slept) = 30

====
